---- MODULE Spec2Model ----
(***************************************************************************)
(* Model of the health-data harmonization pipeline of                      *)
(* src/data_harmonization.py (class HealthDataHarmonizer).                 *)
(*                                                                         *)
(* A cell of a table is a tuple: <<>> is NaN (null), <<v>> is the value v. *)
(* A cell of a text column of the smart-scale export is <<n, suffix, ok>>: *)
(* the text n followed by the unit suffix when ok, and a text that is no   *)
(* number at all (n is then meaningless) when ~ok.                         *)
(* A DataFrame is [columns, index, rows]: the column names in order, the   *)
(* index labels, and one function column -> cell per row.                  *)
(* Numbers are integers; kilograms are kept to the gram (KgScale), sleep   *)
(* hours as sixtieths of an hour (HourScale), everything else in its own   *)
(* unit.                                                                   *)
(***************************************************************************)
EXTENDS Integers, Sequences, FiniteSets, TLC

VARIABLES pc, files, whoop_data, starfit_data, elitehrv_data, dexcom_data,
          pison_data, raised, unified_data, harmonized_data

vars == <<pc, files, whoop_data, starfit_data, elitehrv_data, dexcom_data,
          pison_data, raised, unified_data, harmonized_data>>

----------------------------------------------------------------------------
(* Cells *)

NaN == <<>>

notna(c) == c # <<>>

Val(c) == c[1]

(* pd.DataFrame(): no column, no row *)
EmptyFrame == [columns |-> <<>>, index |-> <<>>, rows |-> <<>>]

(* DataFrame.empty *)
empty(df) == Len(df.rows) = 0 \/ Len(df.columns) = 0

Range(s) == {s[i] : i \in 1..Len(s)}

RangeIndex(n) == [i \in 1..n |-> i - 1]

RECURSIVE SumSeq(_)
SumSeq(s) == IF s = <<>> THEN 0 ELSE s[1] + SumSeq(Tail(s))

RECURSIVE MaxSeq(_)
MaxSeq(s) ==
  IF Len(s) = 1 THEN s[1]
  ELSE LET m == MaxSeq(Tail(s)) IN IF s[1] > m THEN s[1] ELSE m

(* the non-null values of a sequence of cells, in order *)
dropna(cells) == SelectSeq(cells, notna)

(* a sequence written out element by element, as Python's list(...) *)
list(s) == s \o <<>>

Values(cells) ==
  LET kept == dropna(cells) IN list([i \in 1..Len(kept) |-> Val(kept[i])])

----------------------------------------------------------------------------
(* The unified schema *)

unified_schema ==
  << "date", "patient_id", "data_quality_score",
     "avg_resting_hr_bpm", "avg_hrv_ms", "hrv_trend", "cardiac_index",
     "blood_pressure_systolic", "blood_pressure_diastolic",
     "avg_glucose_mg_dl", "time_in_range_pct", "gmi_percent",
     "glucose_variability_cv", "insulin_sensitivity_index",
     "weight_kg", "bmi", "body_fat_pct", "muscle_mass_kg",
     "visceral_fat_level", "bone_mass_kg", "body_water_pct",
     "sleep_duration_hours", "sleep_efficiency_pct", "sleep_consistency_pct",
     "deep_sleep_pct", "rem_sleep_pct", "sleep_debt_hours", "recovery_score_pct",
     "cognitive_readiness_score", "mental_agility_score", "focus_score",
     "stress_level", "circadian_compliance_pct",
     "daily_strain_score", "energy_expenditure_kcal", "steps_count",
     "exercise_duration_min", "cardio_fitness_score",
     "skin_temperature_celsius", "blood_oxygen_pct", "respiratory_rate_rpm",
     "cardiovascular_risk_score", "neurological_risk_score",
     "metabolic_risk_score", "skeletal_risk_score",
     "inflammation_markers", "oxidative_stress_level", "autonomic_balance_score",
     "metabolic_age",
     "weight_trend_30d", "glucose_trend_30d", "hrv_trend_30d",
     "sleep_trend_30d", "recovery_trend_30d",
     "whoop_data_pct", "dexcom_data_pct", "pison_data_pct",
     "starfit_data_pct", "elitehrv_data_pct",
     "physician_notes", "patient_reported_symptoms", "medication_changes",
     "life_events" >>

----------------------------------------------------------------------------
(* The exports: what each adapter reads, and how it aggregates a day *)

SourceNames == <<"whoop", "starfit", "elitehrv", "dexcom", "pison">>

WhoopTime == "Cycle start time"

WhoopAgg ==
  << <<"Recovery score %", "mean">>,
     <<"Resting heart rate (bpm)", "mean">>,
     <<"Heart rate variability (ms)", "mean">>,
     <<"Skin temp (celsius)", "mean">>,
     <<"Blood oxygen %", "mean">>,
     <<"Day Strain", "mean">>,
     <<"Energy burned (cal)", "sum">>,
     <<"Max HR (bpm)", "max">>,
     <<"Average HR (bpm)", "mean">>,
     <<"Sleep performance %", "mean">>,
     <<"Respiratory rate (rpm)", "mean">>,
     <<"Asleep duration (min)", "sum">>,
     <<"In bed duration (min)", "sum">>,
     <<"Light sleep duration (min)", "sum">>,
     <<"Deep (SWS) duration (min)", "sum">>,
     <<"REM duration (min)", "sum">>,
     <<"Awake duration (min)", "sum">>,
     <<"Sleep need (min)", "mean">>,
     <<"Sleep debt (min)", "mean">>,
     <<"Sleep efficiency %", "mean">>,
     <<"Sleep consistency %", "mean">> >>

EliteHrvTime == "Date Time Start"

EliteHrvAgg ==
  << <<"HRV", "mean">>, <<"Morning Readiness", "mean">>, <<"HR", "mean">>,
     <<"Rmssd", "mean">>, <<"Sdnn", "mean">>, <<"LF/HF Ratio", "mean">>,
     <<"Total Power", "mean">> >>

DexcomTime == "timestamp"

DexcomAgg ==
  << <<"glucose_mg_dl", "mean">>, <<"time_in_range_pct", "mean">>,
     <<"gmi_percent", "mean">>, <<"coefficient_variation", "mean">>,
     <<"mean_glucose_mg_dl", "mean">>, <<"sensor_usage_pct", "mean">> >>

PisonTime == "timestamp"

PisonAgg ==
  << <<"readiness_score", "mean">>, <<"mental_agility_score", "mean">>,
     <<"focus_score", "mean">>, <<"neural_sleep_quality", "mean">>,
     <<"neural_sleep_debt_min", "mean">>, <<"sleep_efficiency_pct", "mean">>,
     <<"hrv_ms", "mean">>, <<"heart_rate_bpm", "mean">>,
     <<"steps_count", "sum">>, <<"calories_burned", "sum">>,
     <<"eda_stress_level", "mean">>, <<"skin_temp_celsius", "mean">>,
     <<"circadian_compliance_pct", "mean">> >>

StarfitTime == "Date"

(* the smart-scale columns the adapter converts: <<column, suffix, kind>>,  *)
(* kind "str" for .str.replace(suffix, '').astype(float), "num" for         *)
(* .astype(float), "lb" for the former times 0.453592                       *)
StarfitConv ==
  << <<"Weight", "lb", "lb">>, <<"BMI", "", "num">>, <<"Body Fat", "%", "str">>,
     <<"Heart Rate", "bpm", "str">>, <<"Cardiac Index", "L/Min/m2", "str">>,
     <<"Visceral Fat", "", "num">>, <<"Body Water", "%", "str">>,
     <<"Muscle Mass", "lb", "lb">>, <<"Bone Mass", "lb", "lb">>,
     <<"BMR", "kcal", "str">> >>

AggCols(agg) == [i \in 1..Len(agg) |-> agg[i][1]]

----------------------------------------------------------------------------
(* Fixed point *)

(* grams per kilogram: weight_kg, muscle_mass_kg and bone_mass_kg are kept  *)
(* to the gram                                                              *)
KgScale == 1000

(* 0.453592 kg per lb, in millionths *)
LbToKgMicro == 453592

(* minutes per hour: x / 60 is kept as x sixtieths *)
HourScale == 60

----------------------------------------------------------------------------
(* An export file: [exists, header, rows]; header is the sequence of its     *)
(* column names and each row a function header column -> cell. The cell of   *)
(* the time column is <<day, hour>>.                                         *)

(* pd.to_datetime(...).dt.date *)
ToDate(ts) == ts[1]

RECURSIVE SortedSeq(_)
(* sorted(S) for a finite set of integers *)
SortedSeq(S) ==
  IF S = {} THEN <<>>
  ELSE LET m == CHOOSE x \in S : \A y \in S : x <= y
       IN <<m>> \o SortedSeq(S \ {m})

(* the cells of column c over the rows of day d, in file order *)
GroupCells(rows, timeCol, c, d) ==
  LET g == SelectSeq(rows, LAMBDA r : ToDate(r[timeCol]) = d)
  IN [i \in 1..Len(g) |-> g[i][c]]

(* whether the mean of every group is a whole number *)
MeanExact(cells) ==
  dropna(cells) = <<>> \/ SumSeq(Values(cells)) % Len(Values(cells)) = 0

(* the groupby aggregators, NaN skipped *)
Aggregate(kind, cells) ==
  LET v == Values(cells) IN
  CASE kind = "mean" -> IF v = <<>> THEN NaN ELSE <<SumSeq(v) \div Len(v)>>
    [] kind = "sum"  -> <<SumSeq(v)>>
    [] kind = "max"  -> IF v = <<>> THEN NaN ELSE <<MaxSeq(v)>>
    [] kind = "last" -> IF dropna(cells) = <<>> THEN NaN
                        ELSE dropna(cells)[Len(dropna(cells))]

GroupKeys(rows, timeCol) ==
  SortedSeq({ToDate(rows[i][timeCol]) : i \in 1..Len(rows)})

(* df.groupby('date').agg({...}).reset_index() *)
GroupByAgg(rows, timeCol, agg) ==
  LET keys == GroupKeys(rows, timeCol)
      cols == AggCols(agg)
      kind(c) == agg[CHOOSE i \in 1..Len(agg) : agg[i][1] = c][2]
  IN [columns |-> <<"date">> \o cols,
      index |-> RangeIndex(Len(keys)),
      rows |-> [k \in 1..Len(keys) |->
                 [c \in {"date"} \cup Range(cols) |->
                    IF c = "date" THEN <<keys[k]>>
                    ELSE Aggregate(kind(c), GroupCells(rows, timeCol, c, keys[k]))]]]

(* read_csv fails, or a column the adapter names is not in the file *)
AggRaises(file, timeCol, agg) ==
  \/ ~file.exists
  \/ timeCol \notin Range(file.header)
  \/ \E i \in 1..Len(agg) : agg[i][1] \notin Range(file.header)

(* df[name] = column *)
SetColumn(df, name, col) ==
  [columns |-> IF name \in Range(df.columns) THEN df.columns
               ELSE Append(df.columns, name),
   index |-> df.index,
   rows |-> [i \in 1..Len(df.rows) |->
              [c \in (DOMAIN df.rows[i]) \cup {name} |->
                 IF c = name THEN col[i] ELSE df.rows[i][c]]]]

(* a / b * 100, in whole percent; 0 / 0 is NaN *)
PctOf(a, b) ==
  IF ~notna(a) \/ ~notna(b) THEN NaN
  ELSE IF Val(b) = 0 /\ Val(a) = 0 THEN NaN
  ELSE <<(Val(a) * 100) \div Val(b)>>

WhoopDaily(file) ==
  LET d0 == GroupByAgg(file.rows, WhoopTime, WhoopAgg)
      n == Len(d0.rows)
      d1 == SetColumn(d0, "sleep_duration_hours",
                      [i \in 1..n |-> d0.rows[i]["Asleep duration (min)"]])
      d2 == SetColumn(d1, "deep_sleep_pct",
                      [i \in 1..n |-> PctOf(d0.rows[i]["Deep (SWS) duration (min)"],
                                            d0.rows[i]["Asleep duration (min)"])])
      d3 == SetColumn(d2, "rem_sleep_pct",
                      [i \in 1..n |-> PctOf(d0.rows[i]["REM duration (min)"],
                                            d0.rows[i]["Asleep duration (min)"])])
  IN SetColumn(d3, "sleep_debt_hours",
               [i \in 1..n |-> d0.rows[i]["Sleep debt (min)"]])

(* an adapter's result: the table, and whether an exception left it *)
Returned(df) == [exc |-> FALSE, df |-> df]

Propagated == [exc |-> TRUE, df |-> EmptyFrame]

(* load_whoop_data without its except clause *)
load_whoop_data_reraise(file) ==
  IF AggRaises(file, WhoopTime, WhoopAgg) THEN Propagated
  ELSE Returned(WhoopDaily(file))

load_whoop_data(file) ==
  IF AggRaises(file, WhoopTime, WhoopAgg) THEN Returned(EmptyFrame)
  ELSE Returned(WhoopDaily(file))

load_elitehrv_data(file) ==
  IF AggRaises(file, EliteHrvTime, EliteHrvAgg) THEN Returned(EmptyFrame)
  ELSE Returned(GroupByAgg(file.rows, EliteHrvTime, EliteHrvAgg))

load_dexcom_data(file) ==
  IF AggRaises(file, DexcomTime, DexcomAgg) THEN Returned(EmptyFrame)
  ELSE Returned(GroupByAgg(file.rows, DexcomTime, DexcomAgg))

load_pison_data(file) ==
  IF AggRaises(file, PisonTime, PisonAgg) THEN Returned(EmptyFrame)
  ELSE Returned(GroupByAgg(file.rows, PisonTime, PisonAgg))

----------------------------------------------------------------------------
(* The smart-scale adapter *)

IsText(c) == Len(c) = 3

(* a text cell that read_csv cannot take for a number *)
NotNumberText(c) == IsText(c) /\ (~c[3] \/ c[2] # "")

(* read_csv gives a column the object dtype when one of its cells is no number *)
ObjectDtype(rows, c) == \E i \in 1..Len(rows) : NotNumberText(rows[i][c])

(* float(text.replace(suffix, '')) raises ValueError *)
FloatRaises(cell, suffix) ==
  IsText(cell) /\ (~cell[3] \/ (cell[2] # "" /\ cell[2] # suffix))

(* one converted column raises: .str on a numeric column, or a text that is  *)
(* no number once the suffix is gone                                         *)
ConvRaises(rows, conv) ==
  LET c == conv[1] IN
  IF conv[3] = "num"
    THEN \E i \in 1..Len(rows) : FloatRaises(rows[i][c], "")
    ELSE \/ ~ObjectDtype(rows, c)
         \/ \E i \in 1..Len(rows) : FloatRaises(rows[i][c], conv[2])

StarfitRaises(file) ==
  \/ ~file.exists
  \/ StarfitTime \notin Range(file.header)
  \/ \E k \in 1..Len(StarfitConv) : StarfitConv[k][1] \notin Range(file.header)
  \/ \E k \in 1..Len(StarfitConv) : ConvRaises(file.rows, StarfitConv[k])

(* the converted cell; pounds become kilograms *)
Convert(cell, conv) ==
  IF ~notna(cell) THEN NaN
  ELSE IF conv[3] = "lb"
    THEN <<(cell[1] * LbToKgMicro) \div (1000000 \div KgScale)>>
    ELSE <<cell[1]>>

StarfitClean(file) ==
  LET conv(c) == StarfitConv[CHOOSE k \in 1..Len(StarfitConv) : StarfitConv[k][1] = c]
      isConv(c) == \E k \in 1..Len(StarfitConv) : StarfitConv[k][1] = c
  IN [i \in 1..Len(file.rows) |->
       [c \in Range(file.header) |->
          IF isConv(c) THEN Convert(file.rows[i][c], conv(c))
          ELSE file.rows[i][c]]]

(* df.groupby('date').last().reset_index() *)
StarfitDaily(file) ==
  LET rows == StarfitClean(file)
      agg == [i \in 1..Len(file.header) |-> <<file.header[i], "last">>]
  IN GroupByAgg(rows, StarfitTime, agg)

load_starfit_data(file) ==
  IF StarfitRaises(file) THEN Returned(EmptyFrame)
  ELSE Returned(StarfitDaily(file))

----------------------------------------------------------------------------
(* The unifier *)

Column(df, c) == [i \in 1..Len(df.rows) |-> df.rows[i][c]]

(* a scalar assigned to a column *)
Broadcast(df, v) == [i \in 1..Len(df.rows) |-> v]

(* the dates of the non-empty source tables *)
all_dates(tables) ==
  UNION {IF empty(tables[k]) THEN {}
         ELSE {Val(tables[k].rows[i]["date"]) : i \in 1..Len(tables[k].rows)}
         : k \in 1..Len(tables)}

(* date_range without sorted(): the dates in some other order, here the     *)
(* latest first                                                              *)
date_range_unsorted(tables) ==
  LET ds == SortedSeq(all_dates(tables))
      n == Len(ds)
  IN [columns |-> <<"date">>,
      index |-> RangeIndex(n),
      rows |-> [i \in 1..n |-> [c \in {"date"} |-> <<ds[n + 1 - i]>>]]]

(* pd.DataFrame({'date': sorted(all_dates)}) *)
date_range(tables) ==
  LET ds == SortedSeq(all_dates(tables))
  IN [columns |-> <<"date">>,
      index |-> RangeIndex(Len(ds)),
      rows |-> [i \in 1..Len(ds) |-> [c \in {"date"} |-> <<ds[i]>>]]]

(* the name a column of the right table takes in the merge *)
Suffixed(left, c, name) ==
  IF c \in Range(left.columns) THEN c \o "_" \o name ELSE c

RECURSIVE Flatten(_)
Flatten(ss) == IF ss = <<>> THEN <<>> ELSE ss[1] \o Flatten(Tail(ss))

(* Merge by row position, as pd.concat(axis=1) would: the i-th row of the    *)
(* right table beside the i-th row of the left, whatever their dates         *)
Merge_positional(left, right, name) ==
  LET rcols == SelectSeq(right.columns, LAMBDA c : c # "date")
      row(i) == [c \in (DOMAIN left.rows[i]) \cup Range(rcols) |->
                   IF c \in DOMAIN left.rows[i] THEN left.rows[i][c]
                   ELSE IF i <= Len(right.rows) THEN right.rows[i][c] ELSE NaN]
  IN [columns |-> left.columns \o rcols,
      index |-> left.index,
      rows |-> [i \in 1..Len(left.rows) |-> row(i)]]

(* Merge with how='inner': a row of the left table without a match is lost *)
Merge_inner(left, right, name) ==
  LET rcols == SelectSeq(right.columns, LAMBDA c : c # "date")
      matches(l) == SelectSeq(right.rows, LAMBDA r : r["date"] = l["date"])
      joined(l, r) == [c \in (DOMAIN l) \cup Range(rcols) |->
                         IF c \in DOMAIN l THEN l[c] ELSE r[c]]
      rows == Flatten([i \in 1..Len(left.rows) |->
                         [k \in 1..Len(matches(left.rows[i])) |->
                            joined(left.rows[i], matches(left.rows[i])[k])]])
  IN [columns |-> left.columns \o rcols,
      index |-> RangeIndex(Len(rows)),
      rows |-> rows]

(* left.merge(right, on='date', how='left', suffixes=('', '_' + name)) *)
Merge(left, right, name) ==
  LET rcols == SelectSeq(right.columns, LAMBDA c : c # "date")
      newcols == [k \in 1..Len(rcols) |-> Suffixed(left, rcols[k], name)]
      src(c) == rcols[CHOOSE k \in 1..Len(rcols) : newcols[k] = c]
      matches(l) == SelectSeq(right.rows, LAMBDA r : r["date"] = l["date"])
      joined(l, r) == [c \in (DOMAIN l) \cup Range(newcols) |->
                         IF c \in DOMAIN l THEN l[c] ELSE r[src(c)]]
      unmatched(l) == [c \in (DOMAIN l) \cup Range(newcols) |->
                         IF c \in DOMAIN l THEN l[c] ELSE NaN]
      out(l) == IF matches(l) = <<>> THEN <<unmatched(l)>>
                ELSE [k \in 1..Len(matches(l)) |-> joined(l, matches(l)[k])]
      rows == Flatten([i \in 1..Len(left.rows) |-> out(left.rows[i])])
  IN [columns |-> left.columns \o newcols,
      index |-> RangeIndex(Len(rows)),
      rows |-> rows]

RECURSIVE MergeAll(_, _, _)
(* the loop over the five sources; an empty table is skipped *)
MergeAll(acc, tables, k) ==
  IF k > Len(tables) THEN acc
  ELSE MergeAll(IF empty(tables[k]) THEN acc
                ELSE Merge(acc, tables[k], SourceNames[k]),
                tables, k + 1)

(* unified field -> the source columns unified_data.get tries, outermost     *)
(* first, in the order the fields are assigned                               *)
FieldMap ==
  << <<"avg_resting_hr_bpm", <<"Resting heart rate (bpm)", "heart_rate_bpm">> >>,
     <<"avg_hrv_ms", <<"Heart rate variability (ms)", "HRV", "hrv_ms">> >>,
     <<"cardiac_index", <<"Cardiac Index">> >>,
     <<"avg_glucose_mg_dl", <<"glucose_mg_dl">> >>,
     <<"time_in_range_pct", <<"time_in_range_pct">> >>,
     <<"gmi_percent", <<"gmi_percent">> >>,
     <<"glucose_variability_cv", <<"coefficient_variation">> >>,
     <<"weight_kg", <<"Weight">> >>,
     <<"bmi", <<"BMI">> >>,
     <<"body_fat_pct", <<"Body Fat">> >>,
     <<"muscle_mass_kg", <<"Muscle Mass">> >>,
     <<"visceral_fat_level", <<"Visceral Fat">> >>,
     <<"bone_mass_kg", <<"Bone Mass">> >>,
     <<"body_water_pct", <<"Body Water">> >>,
     <<"sleep_duration_hours", <<"sleep_duration_hours">> >>,
     <<"sleep_efficiency_pct", <<"Sleep efficiency %", "sleep_efficiency_pct">> >>,
     <<"sleep_consistency_pct", <<"Sleep consistency %">> >>,
     <<"deep_sleep_pct", <<"deep_sleep_pct">> >>,
     <<"rem_sleep_pct", <<"rem_sleep_pct">> >>,
     <<"sleep_debt_hours", <<"sleep_debt_hours">> >>,
     <<"recovery_score_pct", <<"Recovery score %">> >>,
     <<"cognitive_readiness_score", <<"readiness_score">> >>,
     <<"mental_agility_score", <<"mental_agility_score">> >>,
     <<"focus_score", <<"focus_score">> >>,
     <<"stress_level", <<"eda_stress_level">> >>,
     <<"circadian_compliance_pct", <<"circadian_compliance_pct">> >>,
     <<"daily_strain_score", <<"Day Strain">> >>,
     <<"energy_expenditure_kcal", <<"Energy burned (cal)", "calories_burned">> >>,
     <<"steps_count", <<"steps_count">> >>,
     <<"skin_temperature_celsius", <<"Skin temp (celsius)", "skin_temp_celsius">> >>,
     <<"blood_oxygen_pct", <<"Blood oxygen %">> >>,
     <<"respiratory_rate_rpm", <<"Respiratory rate (rpm)">> >> >>

RECURSIVE Get_innermost(_, _)
(* the get chain read inside out: the last candidate that is a column wins *)
Get_innermost(df, cands) ==
  IF cands = <<>> THEN Broadcast(df, NaN)
  ELSE IF cands[Len(cands)] \in Range(df.columns) THEN Column(df, cands[Len(cands)])
  ELSE Get_innermost(df, SubSeq(cands, 1, Len(cands) - 1))

RECURSIVE Get(_, _)
(* unified_data.get(c1, unified_data.get(c2, ... np.nan)): the whole column  *)
(* of the first candidate that is a column of the table                      *)
Get(df, cands) ==
  IF cands = <<>> THEN Broadcast(df, NaN)
  ELSE IF cands[1] \in Range(df.columns) THEN Column(df, cands[1])
  ELSE Get(df, Tail(cands))

(* several columns assigned in turn; cols[name] is the column of name *)
SetColumns(df, names, cols) ==
  [columns |-> df.columns \o SelectSeq(names, LAMBDA c : c \notin Range(df.columns)),
   index |-> df.index,
   rows |-> [i \in 1..Len(df.rows) |->
              [c \in (DOMAIN df.rows[i]) \cup Range(names) |->
                 IF c \in Range(names) THEN cols[c][i] ELSE df.rows[i][c]]]]

(* the basic fields, then every mapped field *)
MapToSchema(u) ==
  LET h0 == [columns |-> <<"date">>, index |-> u.index,
             rows |-> [i \in 1..Len(u.rows) |-> [c \in {"date"} |-> u.rows[i]["date"]]]]
      h1 == SetColumn(h0, "patient_id", Broadcast(h0, <<"patient_001">>))
      names == [k \in 1..Len(FieldMap) |-> FieldMap[k][1]]
      cands(c) == FieldMap[CHOOSE k \in 1..Len(FieldMap) : FieldMap[k][1] = c][2]
  IN SetColumns(h1, names, [c \in Range(names) |-> Get(u, cands(c))])

----------------------------------------------------------------------------
(* The risk classifier *)

(* Below with a missing value taken as 0 *)
Below_nan_as_zero(cell, k) == IF notna(cell) THEN Val(cell) < k ELSE 0 < k

(* a comparison with NaN is False *)
Below(cell, k) == notna(cell) /\ Val(cell) < k

Above(cell, k) == notna(cell) /\ Val(cell) > k

(* cell > 6.5 *)
AboveTenths(cell, tenths) == notna(cell) /\ Val(cell) * 10 > tenths

Flag(b) == IF b THEN <<"Abnormality suspected">> ELSE <<"No abnormality suspected">>

RiskColumns ==
  <<"cardiovascular_risk_score", "neurological_risk_score",
    "metabolic_risk_score", "skeletal_risk_score">>

(* row.get(name, default): the default stands for a missing key only, a key  *)
(* that holds NaN gives NaN                                                  *)
RowGet(row, name, default) ==
  IF name \in DOMAIN row THEN row[name] ELSE <<default>>

calculate_risk_scores(row) ==
  [c \in Range(RiskColumns) |->
     CASE c = "cardiovascular_risk_score" ->
            Flag(\/ Below(RowGet(row, "avg_hrv_ms", 0), 30)
                 \/ Above(RowGet(row, "avg_resting_hr_bpm", 0), 100)
                 \/ Below(RowGet(row, "recovery_score_pct", 0), 40))
       [] c = "neurological_risk_score" ->
            Flag(\/ Below(RowGet(row, "cognitive_readiness_score", 0), 50)
                 \/ Below(RowGet(row, "focus_score", 0), 50)
                 \/ Above(RowGet(row, "stress_level", 0), 4))
       [] c = "metabolic_risk_score" ->
            Flag(\/ Below(RowGet(row, "time_in_range_pct", 0), 60)
                 \/ AboveTenths(RowGet(row, "gmi_percent", 0), 65))
       [] c = "skeletal_risk_score" ->
            Flag(\/ Below(RowGet(row, "muscle_mass_kg", 0), 50 * KgScale)
                 \/ Below(RowGet(row, "bone_mass_kg", 0), 5 * KgScale))]


(* pd.concat([harmonized_data, pd.DataFrame(risk_scores)], axis=1): a list   *)
(* of no dict makes a frame of no column                                     *)
WithRiskScores(h) ==
  IF h.rows = <<>> THEN h
  ELSE SetColumns(h, RiskColumns,
                  [c \in Range(RiskColumns) |->
                     [i \in 1..Len(h.rows) |-> calculate_risk_scores(h.rows[i])[c]]])

----------------------------------------------------------------------------
(* The trends *)

(* a window one row short *)
window_short == 30 - 1

window == 30

(* a slope from three values on *)
MinValid_low == 5 - 2

(* fewer non-null values in the window give no slope *)
MinValid == 5

(* the positions of the rows in date order: df.sort_values('date') *)
SortOrder(df) ==
  LET n == Len(df.rows)
      key(i) == Val(df.rows[i]["date"])
      before(i, j) == key(i) < key(j) \/ (key(i) = key(j) /\ i < j)
      rank(i) == Cardinality({j \in 1..n : before(j, i)}) + 1
      ranks == list([i \in 1..n |-> rank(i)])
  IN list([k \in 1..n |-> CHOOSE i \in 1..n : ranks[i] = k])

(* n * sum(x y) - sum(x) sum(y) over x = 0 .. n-1 *)
SlopeNum(y) ==
  Len(y) * SumSeq([k \in 1..Len(y) |-> (k - 1) * y[k]])
    - SumSeq([k \in 1..Len(y) |-> k - 1]) * SumSeq(y)

(* n * sum(x x) - sum(x)^2 *)
SlopeDen(y) ==
  Len(y) * SumSeq([k \in 1..Len(y) |-> (k - 1) * (k - 1)])
    - SumSeq([k \in 1..Len(y) |-> k - 1]) * SumSeq([k \in 1..Len(y) |-> k - 1])

(* SlopeLabel with the two labels exchanged *)
SlopeLabel_exchanged(y, scale) ==
  IF 10 * SlopeNum(y) > scale * SlopeDen(y) THEN "declining"
  ELSE IF 10 * SlopeNum(y) < - scale * SlopeDen(y) THEN "improving"
  ELSE "stable"

(* the label of the least-squares slope of y against 0 .. n-1; y is in       *)
(* 1/scale units, the thresholds are +-0.1 units a row                       *)
SlopeLabel(y, scale) ==
  IF 10 * SlopeNum(y) > scale * SlopeDen(y) THEN "improving"
  ELSE IF 10 * SlopeNum(y) < - scale * SlopeDen(y) THEN "declining"
  ELSE "stable"

(* a window that starts at the first row: df_sorted.iloc[:b] *)
ILoc_from_start(s, a, b) ==
  LET hi == IF b > Len(s) THEN Len(s) ELSE b
  IN IF hi <= 0 THEN <<>> ELSE SubSeq(s, 1, hi)

(* df_sorted.iloc[a:b], a and b counted from 0 *)
ILoc(s, a, b) ==
  LET lo == IF a < 0 THEN (IF Len(s) + a < 0 THEN 0 ELSE Len(s) + a) ELSE a
      hi == IF b > Len(s) THEN Len(s) ELSE b
  IN IF hi <= lo THEN <<>> ELSE SubSeq(s, lo + 1, hi)

(* one label per row, in date order; i is the row's index label *)
calculate_trends(df, metric, scale) ==
  LET ord == SortOrder(df)
      sorted == list([k \in 1..Len(ord) |-> df.rows[ord[k]][metric]])
      label(i) ==
        IF i < window - 1 THEN "insufficient_data"
        ELSE LET recent_data == Values(ILoc(sorted, i - window + 1, i + 1))
             IN IF Len(recent_data) < MinValid THEN "insufficient_data"
                ELSE SlopeLabel(recent_data, scale)
  IN list([k \in 1..Len(ord) |-> <<label(df.index[ord[k]])>>])

(* <<trend column, metric, units of the metric per 1.0>> *)
TrendColumns ==
  << <<"weight_trend_30d", "weight_kg", KgScale>>,
     <<"glucose_trend_30d", "avg_glucose_mg_dl", 1>>,
     <<"hrv_trend_30d", "avg_hrv_ms", 1>>,
     <<"sleep_trend_30d", "sleep_duration_hours", HourScale>>,
     <<"recovery_trend_30d", "recovery_score_pct", 1>> >>

(* the five calls of calculate_trends; none reads a trend column *)
WithTrends(h) ==
  LET names == [k \in 1..Len(TrendColumns) |-> TrendColumns[k][1]]
      trends == list([k \in 1..Len(TrendColumns) |->
                        calculate_trends(h, TrendColumns[k][2], TrendColumns[k][3])])
      t(c) == CHOOSE k \in 1..Len(TrendColumns) : TrendColumns[k][1] = c
  IN SetColumns(h, names, [c \in Range(names) |-> trends[t(c)]])

----------------------------------------------------------------------------
(* The data-quality score and the completeness percentages *)

(* a percentage is kept in thirds of a percent *)
PctScale == 3

(* source -> its indicator fields *)
sources ==
  << <<"whoop", <<"avg_resting_hr_bpm", "avg_hrv_ms", "recovery_score_pct">> >>,
     <<"starfit", <<"weight_kg", "bmi", "body_fat_pct">> >>,
     <<"elitehrv", <<"avg_hrv_ms">> >>,
     <<"dexcom", <<"avg_glucose_mg_dl", "time_in_range_pct">> >>,
     <<"pison", <<"cognitive_readiness_score", "mental_agility_score">> >> >>

(* how many of the fields are not null on the row *)
NotNullCount(row, fields) ==
  Cardinality({k \in 1..Len(fields) : notna(row[fields[k]])})

RECURSIVE Product(_)
Product(s) == IF s = <<>> THEN 1 ELSE s[1] * Product(Tail(s))

(* quality_score without the division by total_fields *)
quality_score_sum(row) ==
  LET lens == [k \in 1..Len(sources) |-> Len(sources[k][2])]
      den == Product(lens)
      num == SumSeq([k \in 1..Len(sources) |->
                       NotNullCount(row, sources[k][2]) * (den \div lens[k])])
  IN <<(num * 100 * PctScale) \div den>>

(* (sum over the sources of count / len(fields)) / total_fields * 100 *)
quality_score(row) ==
  LET lens == [k \in 1..Len(sources) |-> Len(sources[k][2])]
      den == Product(lens)
      num == SumSeq([k \in 1..Len(sources) |->
                       NotNullCount(row, sources[k][2]) * (den \div lens[k])])
      total_fields == Len(sources)
  IN <<(num * 100 * PctScale) \div (den * total_fields)>>

(* all or nothing: 100 when every field is there, else 0 *)
data_pct_whole(row, fields) ==
  <<IF NotNullCount(row, fields) = Len(fields) THEN 100 * PctScale ELSE 0>>

(* harmonized_data[fields].notna().mean(axis=1) * 100 *)
data_pct(row, fields) ==
  <<(NotNullCount(row, fields) * 100 * PctScale) \div Len(fields)>>

(* the completeness columns, in the order they are assigned *)
PctColumns ==
  << <<"whoop_data_pct", 1>>, <<"starfit_data_pct", 2>>, <<"elitehrv_data_pct", 3>>,
     <<"dexcom_data_pct", 4>>, <<"pison_data_pct", 5>> >>

WithQuality(h) ==
  LET h1 == SetColumn(h, "data_quality_score",
                      [i \in 1..Len(h.rows) |-> quality_score(h.rows[i])])
      names == [k \in 1..Len(PctColumns) |-> PctColumns[k][1]]
      fields(c) == sources[PctColumns[CHOOSE k \in 1..Len(PctColumns) :
                                        PctColumns[k][1] = c][2]][2]
  IN SetColumns(h1, names,
                [c \in Range(names) |->
                   [i \in 1..Len(h1.rows) |-> data_pct(h1.rows[i], fields(c))]])

----------------------------------------------------------------------------
(* Placeholders, missing fields, column order *)

Placeholders ==
  << <<"physician_notes", <<"">> >>, <<"patient_reported_symptoms", <<"">> >>,
     <<"medication_changes", <<"">> >>, <<"life_events", <<"">> >>,
     <<"inflammation_markers", <<"low">> >>,
     <<"oxidative_stress_level", <<"moderate">> >>,
     <<"autonomic_balance_score", <<"balanced">> >>,
     <<"metabolic_age", <<22>> >> >>

WithPlaceholders(h) ==
  LET names == [k \in 1..Len(Placeholders) |-> Placeholders[k][1]]
      value(c) == Placeholders[CHOOSE k \in 1..Len(Placeholders) :
                                 Placeholders[k][1] = c][2]
  IN SetColumns(h, names, [c \in Range(names) |-> Broadcast(h, value(c))])

(* for field in unified_schema: if field not in columns: column = NaN *)
WithMissingFields(h) ==
  SetColumns(h, SelectSeq(unified_schema, LAMBDA f : f \notin Range(h.columns)),
             [c \in Range(unified_schema) |-> Broadcast(h, NaN)])

(* harmonized_data[self.unified_schema] *)
Reorder(h, cols) ==
  [columns |-> cols,
   index |-> h.index,
   rows |-> [i \in 1..Len(h.rows) |-> [c \in Range(cols) |-> h.rows[i][c]]]]

(* Finished without the last selection of the schema's columns *)
Finished_unordered(h) == WithMissingFields(WithPlaceholders(h))

Finished(h) == Reorder(WithMissingFields(WithPlaceholders(h)), unified_schema)

----------------------------------------------------------------------------
(* The exports the model reads.  A row is described by [day, hour, p, bad]:  *)
(* the day and hour of its timestamp, the base p of its values (0: every     *)
(* value is missing), and the column whose text is no number ("": none).     *)

(* the days of the one-reading exports are 1 .. MaxDate *)
MaxDate == 2

(* the days of the longer exports are 1 .. MaxDay *)
MaxDay == 3

(* the longer exports hold up to MaxReadings rows *)
MaxReadings == 2

(* the base values of a row: none, or the values from 20 on *)
Profiles == {0, 20}

Timed(source) ==
  CASE source = "whoop" -> WhoopTime
    [] source = "starfit" -> StarfitTime
    [] source = "elitehrv" -> EliteHrvTime
    [] source = "dexcom" -> DexcomTime
    [] source = "pison" -> PisonTime

Measured(source) ==
  CASE source = "whoop" -> AggCols(WhoopAgg)
    [] source = "starfit" -> AggCols(StarfitConv)
    [] source = "elitehrv" -> AggCols(EliteHrvAgg)
    [] source = "dexcom" -> AggCols(DexcomAgg)
    [] source = "pison" -> AggCols(PisonAgg)

FullHeader(source) == <<Timed(source)>> \o Measured(source)

Position(s, x) == CHOOSE k \in 1..Len(s) : s[k] = x

(* the cell of column c in the row described by spec *)
RawCell(source, c, spec) ==
  LET j == Position(FullHeader(source), c) IN
  IF c = Timed(source) THEN <<spec.day, spec.hour>>
  ELSE IF spec.bad = c THEN <<0, "", FALSE>>
  ELSE IF spec.p = 0 THEN NaN
  ELSE IF source = "starfit" /\ StarfitConv[j - 1][3] # "num"
    THEN <<spec.p + j, StarfitConv[j - 1][2], TRUE>>
  ELSE <<spec.p + j>>

(* the export of source without the column drop ("": every column), one row  *)
(* per spec                                                                  *)
MakeFile(source, drop, specs) ==
  LET header == SelectSeq(FullHeader(source), LAMBDA c : c # drop)
  IN [exists |-> TRUE,
      header |-> header,
      rows |-> [i \in 1..Len(specs) |->
                 [c \in Range(header) |-> RawCell(source, c, specs[i])]]]

NoFile == [exists |-> FALSE, header |-> <<>>, rows |-> <<>>]

RowSpecs(days, hours, profiles, bads) ==
  [day : days, hour : hours, p : profiles, bad : bads]

SeqsUpTo(S, n) == UNION {[1..k -> S] : k \in 0..n}

(* every mean of the export is a whole number *)
MeansExact(source, file) ==
  source = "starfit" \/
  \A d \in {ToDate(file.rows[i][Timed(source)]) : i \in 1..Len(file.rows)} :
    \A c \in Range(Measured(source)) :
      c \in Range(file.header) =>
        MeanExact(GroupCells(file.rows, Timed(source), c, d))

(* the exports of one source: none, one that lacks a column, and one row     *)
(* sequence per choice of specs                                              *)
Exports(source, specSeqs) ==
  {NoFile, MakeFile(source, Measured(source)[1], <<>>)}
    \cup {f \in {MakeFile(source, "", ss) : ss \in specSeqs} :
            MeansExact(source, f)}

Sources == Range(SourceNames)

(* the one-reading exports: a single row, on any day, with or without values *)
MainExports(source) ==
  Exports(source, [1..1 -> RowSpecs(1..MaxDate, {8}, Profiles, {""})])

(* the longer exports: rows in any order, days repeated *)
LongExports(source) ==
  Exports(source, SeqsUpTo(RowSpecs(1..MaxDay, {8}, {20}, {""}), MaxReadings))

(* the exports of the sources beside a longer one: none, or one row on day 2 *)
SideExports(source) ==
  {NoFile, MakeFile(source, "", <<[day |-> 2, hour |-> 8, p |-> 20, bad |-> ""]>>)}

(* the smart-scale exports with a text that is no number in some rows *)
ScaleExports ==
  Exports("starfit",
          SeqsUpTo(RowSpecs(1..MaxDay, {8}, {20}, {"", "Weight"}), MaxReadings))

(* the month-long exports hold a row a day for up to MaxTrendRows days *)
MaxTrendRows == 31

(* one day short of a window, and up *)
TrendLens == (window - 1)..MaxTrendRows

(* the change of a row's values from one day to the next *)
TrendSteps == {-7, -5, -1, 0, 1, 5, 7}

(* every day with values; days 3 to 5 with a row and no value; days 3 to 5   *)
(* without a row; a row every eighth day only; a row every other day; a row  *)
(* every sixth day only; a row on the first day of every week only; a header *)
(* and no row                                                                *)
TrendMasks ==
  {"full", "blank", "absent", "sparse", "alternate", "sixth", "weekly", "none"}

(* the glucose monitor's export has a row a day or one every eighth day *)
SideMasks == {"full", "sparse"}

(* the change of the glucose monitor's and the smart scale's values a day *)
SideSteps == {-1, 0, 1}

GapDays == 3..5

(* the smart scale's weights move a pound a day at most, which keeps the     *)
(* sums of the slope, in grams, within 32-bit integers                       *)
StepOf(source, step) ==
  IF source # "starfit" THEN step
  ELSE IF step > 0 THEN 1 ELSE IF step < 0 THEN -1 ELSE 0

BaseOf(source) == IF source = "starfit" THEN 100 ELSE 250

(* the rows of a month-long export, one a day, day by day *)
TrendSpecs(source, n, step, mask) ==
  LET keep(d) == CASE mask = "absent" -> d \notin GapDays
                   [] mask = "sparse" -> d % 8 = 0
                   [] mask = "alternate" -> d % 2 = 1
                   [] mask = "sixth" -> d % 6 = 0
                   [] mask = "weekly" -> d % 7 = 1
                   [] mask = "none" -> FALSE
                   [] OTHER -> TRUE
      days == SelectSeq([d \in 1..n |-> d], keep)
  IN [i \in 1..Len(days) |->
        [day |-> days[i], hour |-> 8,
         p |-> IF mask = "blank" /\ days[i] \in GapDays THEN 0
               ELSE BaseOf(source) + StepOf(source, step) * days[i],
         bad |-> ""]]

TrendExport(source, n, step, mask) ==
  MakeFile(source, "", TrendSpecs(source, n, step, mask))

(* the smart-scale exports with several measurements a day: morning and     *)
(* evening, with different values or none, in any order in the file          *)
DayExports ==
  Exports("starfit",
          SeqsUpTo(RowSpecs(1..MaxDate, {8, 20}, {0, 20, 40}, {""}), MaxReadings))

(* the exports that cover a run of days: days run from 1 to MaxCoverDay *)
MaxCoverDay == 4

(* one row a day from day a to day b, the values growing with the day *)
CoverSpecs(a, b) ==
  [i \in 1..(b - a + 1) |->
     [day |-> a + i - 1, hour |-> 8, p |-> 20 + 10 * (a + i - 1), bad |-> ""]]

(* no export, or one that covers a run of days *)
CoverExports(source) ==
  {NoFile} \cup {MakeFile(source, "", CoverSpecs(a, b)) :
                   a \in 1..MaxCoverDay, b \in 1..MaxCoverDay}

(* the exports around the thresholds of the risk classifier: one row, on     *)
(* day 1, whose classified columns each hold no value or a value next to    *)
(* the column's threshold                                                    *)
RiskFields(source) ==
  CASE source = "whoop" ->
         {"Heart rate variability (ms)", "Resting heart rate (bpm)",
          "Recovery score %"}
    [] source = "starfit" -> {"Muscle Mass", "Bone Mass"}
    [] source = "elitehrv" -> {"HRV"}
    [] source = "dexcom" -> {"time_in_range_pct", "gmi_percent"}
    [] source = "pison" -> {"readiness_score", "focus_score", "eda_stress_level"}

(* the threshold of a classified column in the unit of its export: 50 kg is  *)
(* a little over 110 lb, 5 kg a little over 11 lb, 6.5 lies between 6 and 7  *)
RiskEdge(c) ==
  CASE c \in {"Heart rate variability (ms)", "HRV"} -> 30
    [] c = "Resting heart rate (bpm)" -> 100
    [] c = "Recovery score %" -> 40
    [] c \in {"readiness_score", "focus_score"} -> 50
    [] c = "eda_stress_level" -> 4
    [] c = "time_in_range_pct" -> 60
    [] c = "gmi_percent" -> 6
    [] c = "Muscle Mass" -> 110
    [] c = "Bone Mass" -> 11

(* 0: no value; 1, 2, 3: one under the threshold, the threshold, one over *)
RiskLevels == 0..3

RiskFile(source, lv) ==
  LET plain == [day |-> 1, hour |-> 8, p |-> 20, bad |-> ""]
      cell(c) ==
        IF c \notin DOMAIN lv THEN RawCell(source, c, plain)
        ELSE IF lv[c] = 0 THEN NaN
        ELSE IF source = "starfit" THEN <<RiskEdge(c) + lv[c] - 2, "lb", TRUE>>
        ELSE <<RiskEdge(c) + lv[c] - 2>>
  IN [exists |-> TRUE,
      header |-> FullHeader(source),
      rows |-> << [c \in Range(FullHeader(source)) |-> cell(c)] >>]

RiskExports(source) ==
  {RiskFile(source, lv) : lv \in [RiskFields(source) -> RiskLevels]}

(* the exports of the sources beside the one under test: none, or one row    *)
(* on day 1                                                                  *)
RiskSide(source) ==
  {NoFile, MakeFile(source, "", <<[day |-> 1, hour |-> 8, p |-> 20, bad |-> ""]>>)}

----------------------------------------------------------------------------
(* harmonize_data, step by step *)

Tables == <<whoop_data, starfit_data, elitehrv_data, dexcom_data, pison_data>>

TypeOK ==
  /\ pc \in {"load_whoop", "load_starfit", "load_elitehrv", "load_dexcom",
             "load_pison", "date_range", "merge", "map", "risk", "trends",
             "quality", "finish", "done", "aborted", "call", "called",
             "compared"}
  /\ raised \in BOOLEAN

InitWith(fs) ==
  /\ files = fs
  /\ pc = "load_whoop"
  /\ whoop_data = EmptyFrame
  /\ starfit_data = EmptyFrame
  /\ elitehrv_data = EmptyFrame
  /\ dexcom_data = EmptyFrame
  /\ pison_data = EmptyFrame
  /\ raised = FALSE
  /\ unified_data = EmptyFrame
  /\ harmonized_data = EmptyFrame

(* one export per source, each drawn from its own set *)
InitFrom(W, S, E, D, P) ==
  \E w \in W, s \in S, e \in E, d \in D, p \in P :
    InitWith([whoop |-> w, starfit |-> s, elitehrv |-> e, dexcom |-> d,
              pison |-> p])

MainWhoop == MainExports("whoop")

MainStarfit == MainExports("starfit")

MainEliteHrv == MainExports("elitehrv")

MainDexcom == MainExports("dexcom")

MainPison == MainExports("pison")

Init == InitFrom(MainWhoop, MainStarfit, MainEliteHrv, MainDexcom, MainPison)

LongOrSide(source, long) ==
  IF source = long THEN LongExports(source) ELSE SideExports(source)

(* one source with a longer export, in turn *)
InitRows ==
  \E long \in Sources :
    InitFrom(LongOrSide("whoop", long), LongOrSide("starfit", long),
             LongOrSide("elitehrv", long), LongOrSide("dexcom", long),
             LongOrSide("pison", long))

InitScale ==
  InitFrom(SideExports("whoop"), ScaleExports, SideExports("elitehrv"),
           SideExports("dexcom"), SideExports("pison"))

(* the recovery tracker, the smart scale and the glucose monitor each cover  *)
(* a run of days of their own                                                *)
InitCover ==
  InitFrom(CoverExports("whoop"), CoverExports("starfit"), {NoFile},
           CoverExports("dexcom"), SideExports("pison"))

(* the smart scale with several measurements a day *)
InitLast ==
  InitFrom(SideExports("whoop"), DayExports, {NoFile}, {NoFile},
           SideExports("pison"))

RiskOrSide(source, tested) ==
  IF source = tested THEN RiskExports(source) ELSE RiskSide(source)

(* one source with values next to the thresholds, in turn *)
InitRisk ==
  \E tested \in Sources :
    InitFrom(RiskOrSide("whoop", tested), RiskOrSide("starfit", tested),
             RiskOrSide("elitehrv", tested), RiskOrSide("dexcom", tested),
             RiskOrSide("pison", tested))

(* a month of the recovery tracker, the glucose monitor and the smart scale  *)
InitTrend ==
  \E n \in TrendLens, sw \in TrendSteps, mw \in TrendMasks,
     sd \in SideSteps, md \in SideMasks :
    InitWith([whoop |-> TrendExport("whoop", n, sw, mw),
              starfit |-> TrendExport("starfit", n, sd, "full"),
              elitehrv |-> NoFile,
              dexcom |-> TrendExport("dexcom", n, sd, md),
              pison |-> NoFile])

(* an adapter call of harmonize_data: an exception that leaves the adapter   *)
(* leaves harmonize_data too                                                 *)
Load(at, result, next) ==
  /\ pc = at
  /\ IF result.exc
       THEN /\ pc' = "aborted"
            /\ raised' = TRUE
       ELSE /\ pc' = next
            /\ UNCHANGED raised

LoadWhoop ==
  /\ Load("load_whoop", load_whoop_data(files["whoop"]), "load_starfit")
  /\ whoop_data' = load_whoop_data(files["whoop"]).df
  /\ UNCHANGED <<files, starfit_data, elitehrv_data, dexcom_data, pison_data,
                 unified_data, harmonized_data>>

LoadStarfit ==
  /\ Load("load_starfit", load_starfit_data(files["starfit"]), "load_elitehrv")
  /\ starfit_data' = load_starfit_data(files["starfit"]).df
  /\ UNCHANGED <<files, whoop_data, elitehrv_data, dexcom_data, pison_data,
                 unified_data, harmonized_data>>

LoadEliteHrv ==
  /\ Load("load_elitehrv", load_elitehrv_data(files["elitehrv"]), "load_dexcom")
  /\ elitehrv_data' = load_elitehrv_data(files["elitehrv"]).df
  /\ UNCHANGED <<files, whoop_data, starfit_data, dexcom_data, pison_data,
                 unified_data, harmonized_data>>

LoadDexcom ==
  /\ Load("load_dexcom", load_dexcom_data(files["dexcom"]), "load_pison")
  /\ dexcom_data' = load_dexcom_data(files["dexcom"]).df
  /\ UNCHANGED <<files, whoop_data, starfit_data, elitehrv_data, pison_data,
                 unified_data, harmonized_data>>

LoadPison ==
  /\ Load("load_pison", load_pison_data(files["pison"]), "date_range")
  /\ pison_data' = load_pison_data(files["pison"]).df
  /\ UNCHANGED <<files, whoop_data, starfit_data, elitehrv_data, dexcom_data,
                 unified_data, harmonized_data>>

UNCHANGED_inputs ==
  UNCHANGED <<files, whoop_data, starfit_data, elitehrv_data, dexcom_data,
              pison_data, raised>>

CreateDateRange ==
  /\ pc = "date_range"
  /\ unified_data' = date_range(Tables)
  /\ pc' = "merge"
  /\ UNCHANGED harmonized_data
  /\ UNCHANGED_inputs

MergeSources ==
  /\ pc = "merge"
  /\ unified_data' = MergeAll(unified_data, Tables, 1)
  /\ pc' = "map"
  /\ UNCHANGED harmonized_data
  /\ UNCHANGED_inputs

MapToUnifiedSchema ==
  /\ pc = "map"
  /\ harmonized_data' = MapToSchema(unified_data)
  /\ pc' = "risk"
  /\ UNCHANGED unified_data
  /\ UNCHANGED_inputs

CalculateRiskScores ==
  /\ pc = "risk"
  /\ harmonized_data' = WithRiskScores(harmonized_data)
  /\ pc' = "trends"
  /\ UNCHANGED unified_data
  /\ UNCHANGED_inputs

CalculateTrends ==
  /\ pc = "trends"
  /\ harmonized_data' = WithTrends(harmonized_data)
  /\ pc' = "quality"
  /\ UNCHANGED unified_data
  /\ UNCHANGED_inputs

CalculateQuality ==
  /\ pc = "quality"
  /\ harmonized_data' = WithQuality(harmonized_data)
  /\ pc' = "finish"
  /\ UNCHANGED unified_data
  /\ UNCHANGED_inputs

Finish ==
  /\ pc = "finish"
  /\ harmonized_data' = Finished(harmonized_data)
  /\ pc' = "done"
  /\ UNCHANGED unified_data
  /\ UNCHANGED_inputs

Next ==
  \/ LoadWhoop
  \/ LoadStarfit
  \/ LoadEliteHrv
  \/ LoadDexcom
  \/ LoadPison
  \/ CreateDateRange
  \/ MergeSources
  \/ MapToUnifiedSchema
  \/ CalculateRiskScores
  \/ CalculateTrends
  \/ CalculateQuality
  \/ Finish

Spec == Init /\ [][Next]_vars

SpecRows == InitRows /\ [][Next]_vars

SpecScale == InitScale /\ [][Next]_vars

SpecTrend == InitTrend /\ [][Next]_vars

SpecCover == InitCover /\ [][Next]_vars

SpecLast == InitLast /\ [][Next]_vars

SpecRisk == InitRisk /\ [][Next]_vars

----------------------------------------------------------------------------
(* What the claims speak of *)

PcOrder ==
  <<"load_whoop", "load_starfit", "load_elitehrv", "load_dexcom", "load_pison",
    "date_range", "merge", "map", "risk", "trends", "quality", "finish", "done">>

(* the k-th adapter has returned *)
Loaded(k) == \E j \in (k + 1)..Len(PcOrder) : pc = PcOrder[j]

Done == pc = "done"

HRows == harmonized_data.rows

HDate(i) == Val(HRows[i]["date"])

TableDates(df) == {Val(df.rows[i]["date"]) : i \in 1..Len(df.rows)}

RawDays(source) ==
  {ToDate(files[source].rows[i][Timed(source)]) : i \in 1..Len(files[source].rows)}

(* the export is missing, or lacks a column the adapter names *)
Unusable(source) ==
  \/ ~files[source].exists
  \/ \E c \in Range(FullHeader(source)) : c \notin Range(files[source].header)

(* the cell of the source-native column col on day d in the adapters' tables *)
SourceCell(col, d) ==
  LET cells == UNION {{<<k, i>> : i \in 1..Len(Tables[k].rows)} : k \in 1..Len(Tables)}
      hits == {h \in cells : /\ col \in Range(Tables[h[1]].columns)
                              /\ Val(Tables[h[1]].rows[h[2]]["date"]) = d}
  IN IF hits = {} THEN NaN
     ELSE LET h == CHOOSE h \in hits : TRUE IN Tables[h[1]].rows[h[2]][col]

RECURSIVE Coalesce(_, _)
(* the first candidate that is not null on day d *)
Coalesce(cands, d) ==
  IF cands = <<>> THEN NaN
  ELSE IF notna(SourceCell(cands[1], d)) THEN SourceCell(cands[1], d)
  ELSE Coalesce(Tail(cands), d)

----------------------------------------------------------------------------
(* C1: the table harmonize_data returns holds exactly one row for every      *)
(* date of a non-empty source table and no row for any other date.           *)
C1_OneRowPerSourceDate ==
  Done =>
    /\ \A k \in 1..Len(Tables) : \A d \in TableDates(Tables[k]) :
         Cardinality({i \in 1..Len(HRows) : HDate(i) = d}) = 1
    /\ \A i \in 1..Len(HRows) :
         \E k \in 1..Len(Tables) : HDate(i) \in TableDates(Tables[k])

(* a run where one export repeats a day and another source has a day of its  *)
(* own                                                                       *)
C1_Witness ==
  /\ Done
  /\ Len(HRows) >= 2
  /\ \E s \in Sources :
       /\ Len(files[s].rows) > Cardinality(RawDays(s))
       /\ \E t \in Sources \ {s} : RawDays(t) # {} /\ RawDays(t) \cap RawDays(s) = {}

(* C2 as claimed: every unified field with several candidate columns holds,  *)
(* on every date, the first candidate that is not null on that date.         *)
C2_FirstNonNullCandidateWins ==
  Done =>
    \A i \in 1..Len(HRows) : \A k \in 1..Len(FieldMap) :
      Len(FieldMap[k][2]) > 1 =>
        HRows[i][FieldMap[k][1]] = Coalesce(FieldMap[k][2], HDate(i))

HrvStrap(d) == SourceCell("HRV", d)

HrvTracker(d) == SourceCell("Heart rate variability (ms)", d)

HrvBand(d) == SourceCell("hrv_ms", d)

(* C3 as claimed: where the HRV strap and the recovery tracker both report,  *)
(* avg_hrv_ms is the HRV strap's value.                                      *)
C3_StrapBeforeTracker ==
  Done =>
    \A i \in 1..Len(HRows) :
      notna(HrvStrap(HDate(i))) /\ notna(HrvTracker(HDate(i))) =>
        HRows[i]["avg_hrv_ms"] = HrvStrap(HDate(i))

(* C3, amended: the order is recovery tracker, HRV strap, neuromuscular      *)
(* band. Where the tracker and the strap both report, avg_hrv_ms is the      *)
(* tracker's value; with no tracker table, where the strap and the band both *)
(* report, it is the strap's.                                                *)
C3_TrackerBeforeStrap ==
  Done =>
    \A i \in 1..Len(HRows) :
      /\ notna(HrvStrap(HDate(i))) /\ notna(HrvTracker(HDate(i))) =>
           HRows[i]["avg_hrv_ms"] = HrvTracker(HDate(i))
      /\ empty(whoop_data) /\ notna(HrvStrap(HDate(i))) /\ notna(HrvBand(HDate(i))) =>
           HRows[i]["avg_hrv_ms"] = HrvStrap(HDate(i))

(* the strap and the tracker report different values on one date *)
C3_Witness ==
  /\ Done
  /\ \E i \in 1..Len(HRows) :
       /\ notna(HrvStrap(HDate(i))) /\ notna(HrvTracker(HDate(i)))
       /\ HrvStrap(HDate(i)) # HrvTracker(HDate(i))
       /\ HRows[i]["avg_hrv_ms"] = HrvTracker(HDate(i))

(* C4: whatever adapters fail, each failed adapter returns the empty table,  *)
(* no exception is ever raised out of an adapter or of harmonize_data (the   *)
(* run is never aborted), and the table harmonize_data returns has the       *)
(* unified schema and one row per date of the adapters that succeeded.       *)
C4_AdapterFailuresContained ==
  /\ ~raised
  /\ pc # "aborted"
  /\ \A k \in 1..Len(SourceNames) :
       Loaded(k) /\ Unusable(SourceNames[k]) => Tables[k] = EmptyFrame
  /\ Done =>
       /\ harmonized_data.columns = unified_schema
       /\ LET days == UNION {IF Tables[k] = EmptyFrame THEN {}
                             ELSE RawDays(SourceNames[k]) : k \in 1..Len(SourceNames)}
          IN /\ Len(HRows) = Cardinality(days)
             /\ {HDate(i) : i \in 1..Len(HRows)} = days

(* all five adapters fail, some for a missing file and some for a missing    *)
(* column, and the table has the schema and no row                           *)
C4_Witness ==
  /\ Done
  /\ \A s \in Sources : Unusable(s)
  /\ \E s \in Sources : ~files[s].exists
  /\ \E s \in Sources : files[s].exists
  /\ HRows = <<>>
  /\ harmonized_data.columns = unified_schema

(* C5 as claimed: a text of the smart-scale export that is no number leaves  *)
(* the adapter's other records in place: every day of a readable export has  *)
(* its record, and the fields of the row with the bad text other than that   *)
(* one keep their values.                                                    *)
C5_BadTextNullsOneField ==
  Loaded(2) /\ ~Unusable("starfit") =>
    \A i \in 1..Len(files["starfit"].rows) :
      \E j \in 1..Len(starfit_data.rows) :
        /\ Val(starfit_data.rows[j]["date"]) =
             ToDate(files["starfit"].rows[i][StarfitTime])
        /\ notna(starfit_data.rows[j]["BMI"])

(* C6: the columns of the returned table are the unified schema, in order,   *)
(* and no other column.                                                      *)
C6_ExactSchema ==
  Done =>
    /\ harmonized_data.columns = unified_schema
    /\ \A i \in 1..Len(HRows) : DOMAIN HRows[i] = Range(unified_schema)

(* a run with a failed and a loaded source, and a declared field that        *)
(* nothing populates                                                         *)
C6_Witness ==
  /\ Done
  /\ empty(whoop_data)
  /\ ~empty(pison_data)
  /\ Len(HRows) >= 1
  /\ HRows[1]["hrv_trend"] = NaN
  /\ "readiness_score" \in Range(unified_data.columns)

IndicatorFields == UNION {Range(sources[k][2]) : k \in 1..Len(sources)}

(* C9: data_quality_score is within [0, 100]; it is 0 on a row whose         *)
(* indicator fields are all null and 100 on a row where none is.             *)
C9_QualityScoreBounds ==
  Done =>
    \A i \in 1..Len(HRows) :
      LET q == Val(HRows[i]["data_quality_score"]) IN
      /\ 0 <= q /\ q <= 100 * PctScale
      /\ (\A f \in IndicatorFields : ~notna(HRows[i][f])) => q = 0
      /\ (\A f \in IndicatorFields : notna(HRows[i][f])) => q = 100 * PctScale

(* a row with every indicator field of the five sources *)
C9_Witness ==
  /\ Done
  /\ \A s \in Sources : RawDays(s) # {}
  /\ \E i \in 1..Len(HRows) :
       /\ \A f \in IndicatorFields : notna(HRows[i][f])
       /\ Val(HRows[i]["data_quality_score"]) = 100 * PctScale

(* C10: the rows of the returned table are in strictly ascending date order. *)
C10_AscendingDates ==
  Done => \A i \in 1..(Len(HRows) - 1) : HDate(i) < HDate(i + 1)

(* an export whose rows are not in date order, and a table of several dates  *)
C10_Witness ==
  /\ Done
  /\ Len(HRows) >= 3
  /\ \E s \in Sources : \E i \in 1..(Len(files[s].rows) - 1) :
       ToDate(files[s].rows[i][Timed(s)]) > ToDate(files[s].rows[i + 1][Timed(s)])

(* the values of metric in the 30 rows that end at row i, in date order *)
Window30(metric, i) == [k \in 1..30 |-> HRows[i - 30 + k][metric]]

FullWindow(metric, i) ==
  i >= 30 /\ \A k \in 1..30 : notna(Window30(metric, i)[k])

(* the change from row k to row k + 1 of the window *)
Increment(metric, i, k) ==
  Val(Window30(metric, i)[k + 1]) - Val(Window30(metric, i)[k])

TrendOf(t, i) == Val(HRows[i][TrendColumns[t][1]])

(* C7 as claimed: over a full window without nulls a strictly increasing     *)
(* metric is labelled improving and a strictly decreasing one declining,     *)
(* whatever the size of the increments, and a constant one stable.           *)
C7_MonotoneWindowLabel ==
  Done =>
    \A t \in 1..Len(TrendColumns) : \A i \in 1..Len(HRows) :
      LET m == TrendColumns[t][2] IN
      FullWindow(m, i) =>
        /\ (\A k \in 1..29 : Increment(m, i, k) > 0) => TrendOf(t, i) = "improving"
        /\ (\A k \in 1..29 : Increment(m, i, k) < 0) => TrendOf(t, i) = "declining"
        /\ (\A k \in 1..29 : Increment(m, i, k) = 0) => TrendOf(t, i) = "stable"

(* C7, amended: over a full window without nulls a metric that grows by more *)
(* than 0.1 from each row to the next is labelled improving, one that falls  *)
(* by more than 0.1 from each row to the next declining, and a constant one  *)
(* stable.                                                                   *)
C7_SteepWindowLabel ==
  Done =>
    \A t \in 1..Len(TrendColumns) : \A i \in 1..Len(HRows) :
      LET m == TrendColumns[t][2]
          scale == TrendColumns[t][3]
      IN
      FullWindow(m, i) =>
        /\ (\A k \in 1..29 : 10 * Increment(m, i, k) > scale) =>
             TrendOf(t, i) = "improving"
        /\ (\A k \in 1..29 : 10 * Increment(m, i, k) < - scale) =>
             TrendOf(t, i) = "declining"
        /\ (\A k \in 1..29 : Increment(m, i, k) = 0) => TrendOf(t, i) = "stable"

(* a full window of sleep hours that grow by 7 minutes a row, labelled       *)
(* improving, beside a weight that falls a pound a row, labelled declining   *)
C7_Witness ==
  /\ Done
  /\ \E i \in 1..Len(HRows) :
       /\ FullWindow("sleep_duration_hours", i)
       /\ \A k \in 1..29 : Increment("sleep_duration_hours", i, k) = 7
       /\ Val(HRows[i]["sleep_trend_30d"]) = "improving"
       /\ FullWindow("weight_kg", i)
       /\ \A k \in 1..29 : Increment("weight_kg", i, k) < 0
       /\ Val(HRows[i]["weight_trend_30d"]) = "declining"

(* C8: the first 29 rows in date order have every trend label               *)
(* insufficient_data, whatever the metric values; so has every row of a      *)
(* table of fewer than 30 rows.                                              *)
C8_First29Insufficient ==
  Done =>
    \A t \in 1..Len(TrendColumns) : \A i \in 1..Len(HRows) :
      i <= 29 => TrendOf(t, i) = "insufficient_data"

(* a table of 30 rows or more with values from the first day on: row 29 has  *)
(* no label yet, row 30 has one                                              *)
C8_Witness ==
  /\ Done
  /\ Len(HRows) >= 30
  /\ \A i \in 1..29 : notna(HRows[i]["avg_glucose_mg_dl"])
  /\ Val(HRows[29]["glucose_trend_30d"]) = "insufficient_data"
  /\ Val(HRows[30]["glucose_trend_30d"]) # "insufficient_data"

(* the source of the column c has a record on day d *)
HasRecord(c, d) ==
  \E k \in 1..Len(Tables) :
    c \in Range(Tables[k].columns) /\ d \in TableDates(Tables[k])

(* the candidates of a unified field that are columns of a loaded table *)
Supplied(cands) ==
  {j \in 1..Len(cands) : \E k \in 1..Len(Tables) : cands[j] \in Range(Tables[k].columns)}

(* C11: a date covered by some source keeps its row; on it, a unified field  *)
(* whose sources all have no record for that date is null, and a field fed   *)
(* by one loaded source holds that source's value for the date (null when    *)
(* that source has no record there).                                         *)
C11_AbsentSourceNullFields ==
  Done =>
    /\ {HDate(i) : i \in 1..Len(HRows)} =
         UNION {TableDates(Tables[k]) : k \in 1..Len(Tables)}
    /\ \A i \in 1..Len(HRows) : \A k \in 1..Len(FieldMap) :
         LET cands == FieldMap[k][2]
             v == HRows[i][FieldMap[k][1]]
         IN /\ (\A j \in 1..Len(cands) : ~HasRecord(cands[j], HDate(i))) => v = NaN
            /\ \A j \in Supplied(cands) :
                 Supplied(cands) = {j} => v = SourceCell(cands[j], HDate(i))

(* the scenario: heart rate on days 1 to 3, glucose on days 2 to 4 *)
C11_Witness ==
  /\ Done
  /\ TableDates(whoop_data) = {1, 2, 3}
  /\ TableDates(dexcom_data) = {2, 3, 4}
  /\ empty(starfit_data) /\ empty(pison_data)
  /\ Len(HRows) = 4
  /\ HRows[1]["avg_glucose_mg_dl"] = NaN
  /\ HRows[4]["avg_resting_hr_bpm"] = NaN
  /\ \A i \in {2, 3} :
       /\ notna(HRows[i]["avg_glucose_mg_dl"])
       /\ HRows[i]["avg_glucose_mg_dl"] = SourceCell("glucose_mg_dl", i)
       /\ notna(HRows[i]["avg_resting_hr_bpm"])
       /\ HRows[i]["avg_resting_hr_bpm"] = SourceCell("Resting heart rate (bpm)", i)
  /\ HRows[2]["avg_glucose_mg_dl"] # HRows[3]["avg_glucose_mg_dl"]

(* the offsets 1..30 of the window of row i at which metric is not null *)
Offsets(metric, i) ==
  LET w == list(Window30(metric, i))
  IN SelectSeq(list([k \in 1..30 |-> k]), LAMBDA k : notna(w[k]))

(* the label of the least-squares slope of the non-null values of the window *)
(* of row i against their offsets 0..29 in the window                        *)
PositionLabel(metric, scale, i) ==
  LET w == list(Window30(metric, i))
      ks == Offsets(metric, i)
      n == Len(ks)
      sx == SumSeq(list([j \in 1..n |-> ks[j] - 1]))
      sy == SumSeq(list([j \in 1..n |-> Val(w[ks[j]])]))
      sxy == SumSeq(list([j \in 1..n |-> (ks[j] - 1) * Val(w[ks[j]])]))
      sxx == SumSeq(list([j \in 1..n |-> (ks[j] - 1) * (ks[j] - 1)]))
      num == n * sxy - sx * sy
      den == n * sxx - sx * sx
  IN IF 10 * num > scale * den THEN "improving"
     ELSE IF 10 * num < - scale * den THEN "declining"
     ELSE "stable"

(* C13 as claimed: from row 30 on, with 5 non-null values or more in the     *)
(* window, the label is that of the slope of the non-null values against     *)
(* their offsets in the 30-row window, nulls leaving gaps.                   *)
C13_SlopeAgainstWindowOffset ==
  Done =>
    \A t \in 1..Len(TrendColumns) : \A i \in 30..Len(HRows) :
      Len(Offsets(TrendColumns[t][2], i)) >= 5 =>
        TrendOf(t, i) = PositionLabel(TrendColumns[t][2], TrendColumns[t][3], i)

TrendLabels == {"insufficient_data", "improving", "declining", "stable"}

(* C14: every trend label is one of the four; from row 30 on, a window with  *)
(* fewer than 5 non-null values of the metric, none included, is labelled    *)
(* insufficient_data, and one with 5 or more is labelled improving,          *)
(* declining or stable.                                                      *)
C14_FewValuesInsufficient ==
  Done =>
    \A t \in 1..Len(TrendColumns) : \A i \in 1..Len(HRows) :
      /\ TrendOf(t, i) \in TrendLabels
      /\ i >= 30 =>
           IF Len(Offsets(TrendColumns[t][2], i)) < 5
             THEN TrendOf(t, i) = "insufficient_data"
             ELSE TrendOf(t, i) \in TrendLabels \ {"insufficient_data"}

(* at one row, a window of glucose with 3 values and no label beside a       *)
(* window of heart-rate variability with exactly 5 values and a label        *)
C14_Witness ==
  /\ Done
  /\ \E i \in 30..Len(HRows) :
       /\ Len(Offsets("avg_glucose_mg_dl", i)) \in 1..4
       /\ Val(HRows[i]["glucose_trend_30d"]) = "insufficient_data"
       /\ Len(Offsets("avg_hrv_ms", i)) = 5
       /\ Val(HRows[i]["hrv_trend_30d"]) = "improving"

(* a label computed from the 30 cells of a window and nothing else *)
WindowLabel(w, scale) ==
  LET v == Values(w)
  IN IF Len(v) < MinValid THEN "insufficient_data" ELSE SlopeLabel(v, scale)

(* C15: from row 30 on, the trend label of row i is a function of the        *)
(* metric's values in rows i-29..i alone, a window of 30 rows whatever their *)
(* dates: rows after i and rows before i-29 have no part in it. Two rows     *)
(* with the same window have the same label.                                 *)
C15_LabelFromWindowOnly ==
  Done =>
    \A t \in 1..Len(TrendColumns) : \A i \in 30..Len(HRows) :
      /\ TrendOf(t, i) =
           WindowLabel(list(Window30(TrendColumns[t][2], i)), TrendColumns[t][3])
      /\ \A j \in 30..Len(HRows) :
           Window30(TrendColumns[t][2], i) = Window30(TrendColumns[t][2], j) =>
             TrendOf(t, i) = TrendOf(t, j)

(* a table of 31 rows: the value of day 1 is in the window of row 30, which  *)
(* has a label, and not in the window of row 31, which has none              *)
C15_Witness ==
  /\ Done
  /\ Len(HRows) = 31
  /\ notna(HRows[1]["avg_hrv_ms"])
  /\ Len(Offsets("avg_hrv_ms", 30)) = 5
  /\ Val(HRows[30]["hrv_trend_30d"]) \in {"improving", "declining", "stable"}
  /\ Len(Offsets("avg_hrv_ms", 31)) = 4
  /\ Val(HRows[31]["hrv_trend_30d"]) = "insufficient_data"

Pct(i, k) == Val(HRows[i][PctColumns[k][1]])

(* C16: on every row data_quality_score is the mean of the five *_data_pct   *)
(* of the row, and each *_data_pct is 100 times the share of the source's    *)
(* indicator fields that are not null on the row.                            *)
C16_ScoreIsMeanOfPcts ==
  Done =>
    \A i \in 1..Len(HRows) :
      /\ 5 * Val(HRows[i]["data_quality_score"]) =
           Pct(i, 1) + Pct(i, 2) + Pct(i, 3) + Pct(i, 4) + Pct(i, 5)
      /\ \A k \in 1..5 :
           LET fields == sources[PctColumns[k][2]][2]
           IN Pct(i, k) * Len(fields) =
                100 * PctScale * Cardinality({f \in Range(fields) : notna(HRows[i][f])})

(* a row where the sources' percentages differ and one is neither 0 nor 100 *)
C16_Witness ==
  /\ Done
  /\ \E i \in 1..Len(HRows) :
       /\ Pct(i, 1) \notin {0, 100 * PctScale}
       /\ Pct(i, 2) = 100 * PctScale
       /\ Pct(i, 4) = 0
       /\ Val(HRows[i]["data_quality_score"]) \notin {0, 100 * PctScale}

(* the rows of the smart-scale export measured on day d *)
ScaleRowsOf(d) ==
  {i \in 1..Len(files["starfit"].rows) :
     ToDate(files["starfit"].rows[i][StarfitTime]) = d}

(* the one measurement of day d with the latest timestamp, if there is one *)
Latest(d) ==
  {i \in ScaleRowsOf(d) :
     \A j \in ScaleRowsOf(d) \ {i} :
       files["starfit"].rows[j][StarfitTime][2] < files["starfit"].rows[i][StarfitTime][2]}

(* C17 as claimed: every field of a day's smart-scale record is the          *)
(* converted value of the day's measurement with the latest timestamp,       *)
(* taken whole from it, whatever the order of the rows in the file.          *)
C17_LatestMeasurementWins ==
  Loaded(2) /\ ~empty(starfit_data) =>
    \A r \in 1..Len(starfit_data.rows) :
      \A i \in Latest(Val(starfit_data.rows[r]["date"])) :
        \A k \in 1..Len(StarfitConv) :
          starfit_data.rows[r][StarfitConv[k][1]] =
            Convert(files["starfit"].rows[i][StarfitConv[k][1]], StarfitConv[k])

(* the k-th source has a record on the date of row i *)
Contributes(k, i) == HDate(i) \in TableDates(Tables[k])

(* C18 as claimed: on a date for which a source has no record, failed or     *)
(* without a row, the source's *_data_pct is 0 and the source adds nothing   *)
(* to data_quality_score.                                                    *)
C18_AbsentSourceCountsZero ==
  Done =>
    \A i \in 1..Len(HRows) :
      /\ \A k \in 1..Len(PctColumns) : ~Contributes(k, i) => Pct(i, k) = 0
      /\ 5 * Val(HRows[i]["data_quality_score"]) =
           SumSeq(list([k \in 1..Len(PctColumns) |->
                          IF Contributes(k, i) THEN Pct(i, k) ELSE 0]))

----------------------------------------------------------------------------
(* calculate_trends called on tables of its own.  The table is held in       *)
(* harmonized_data; the labels of the call come back in unified_data, beside *)
(* the dates in ascending order.                                             *)

(* the tables hold window .. MaxCallRows rows, one per day *)
MaxCallRows == 31

CallLens == window..MaxCallRows

(* the rows in date order, in reverse date order, with the first day moved   *)
(* to the end, or with the first and the last day exchanged                  *)
CallOrders == {"sorted", "reversed", "rotated", "swapped"}

(* the index labels: 0 .. n-1 down the rows, the labels the rows had in date *)
(* order, or 5 .. n+4 down the rows                                          *)
CallIndexes == {"fresh", "kept", "shifted"}

CallSteps == {-1, 0, 1}

(* the day of the k-th row *)
CallDay(order, n, k) ==
  CASE order = "sorted" -> k
    [] order = "reversed" -> n + 1 - k
    [] order = "rotated" -> IF k = n THEN 1 ELSE k + 1
    [] order = "swapped" -> IF k = 1 THEN n ELSE IF k = n THEN 1 ELSE k

CallTable(n, order, idx, step) ==
  [columns |-> <<"date", "avg_hrv_ms">>,
   index |-> [k \in 1..n |->
                CASE idx = "fresh" -> k - 1
                  [] idx = "kept" -> CallDay(order, n, k) - 1
                  [] idx = "shifted" -> k + 4],
   rows |-> [k \in 1..n |->
               [c \in {"date", "avg_hrv_ms"} |->
                  IF c = "date" THEN <<CallDay(order, n, k)>>
                  ELSE <<40 + step * CallDay(order, n, k)>>]]]

(* df.sort_values('date').reset_index(drop=True) *)
SortedFresh(df) ==
  LET ord == SortOrder(df)
  IN [columns |-> df.columns,
      index |-> RangeIndex(Len(df.rows)),
      rows |-> list([k \in 1..Len(ord) |-> df.rows[ord[k]]])]

InitCall ==
  \E n \in CallLens, order \in CallOrders, idx \in CallIndexes,
     step \in CallSteps :
    /\ files = [src \in Sources |-> NoFile]
    /\ pc = "call"
    /\ whoop_data = EmptyFrame
    /\ starfit_data = EmptyFrame
    /\ elitehrv_data = EmptyFrame
    /\ dexcom_data = EmptyFrame
    /\ pison_data = EmptyFrame
    /\ raised = FALSE
    /\ unified_data = EmptyFrame
    /\ harmonized_data = CallTable(n, order, idx, step)

(* trends = self.calculate_trends(df, 'avg_hrv_ms') *)
CallOnTable ==
  /\ pc = "call"
  /\ unified_data' =
       SetColumn(SortedFresh(harmonized_data), "hrv_trend_30d",
                 calculate_trends(harmonized_data, "avg_hrv_ms", 1))
  /\ pc' = "called"
  /\ UNCHANGED harmonized_data
  /\ UNCHANGED_inputs

(* the same call on the rows sorted by date under a fresh index *)
CallOnSorted ==
  /\ pc = "called"
  /\ harmonized_data' =
       SetColumn(SortedFresh(harmonized_data), "hrv_trend_30d",
                 calculate_trends(SortedFresh(harmonized_data), "avg_hrv_ms", 1))
  /\ pc' = "compared"
  /\ UNCHANGED unified_data
  /\ UNCHANGED_inputs

NextCall ==
  \/ CallOnTable
  \/ CallOnSorted

SpecCall == InitCall /\ [][NextCall]_vars

(* C20 as claimed: calculate_trends returns one label per row, in ascending  *)
(* date order, and the label of a date does not depend on the order or the   *)
(* index labels of the rows: the call on a table gives each date the label   *)
(* that the call on the same rows sorted by date with a fresh 0..n-1 index   *)
(* gives it.                                                                 *)
C20_LabelsIgnoreRowOrder ==
  pc = "compared" =>
    /\ Len(unified_data.rows) = Len(harmonized_data.rows)
    /\ \A k \in 1..Len(unified_data.rows) :
         /\ unified_data.rows[k]["date"] = harmonized_data.rows[k]["date"]
         /\ unified_data.rows[k]["hrv_trend_30d"] =
              harmonized_data.rows[k]["hrv_trend_30d"]

(* the table the classifier has just been applied to *)
Classified == pc = "trends" /\ harmonized_data.rows # <<>>

Under(row, c, k) == notna(row[c]) /\ Val(row[c]) < k

Over(row, c, k) == notna(row[c]) /\ Val(row[c]) > k

Suspected(b) ==
  IF b THEN <<"Abnormality suspected">> ELSE <<"No abnormality suspected">>

RiskInputs ==
  {"avg_hrv_ms", "avg_resting_hr_bpm", "recovery_score_pct",
   "cognitive_readiness_score", "focus_score", "stress_level",
   "time_in_range_pct", "gmi_percent", "muscle_mass_kg", "bone_mass_kg"}

(* C19: the classifier gives every row exactly the four risk fields; a       *)
(* system is 'Abnormality suspected' exactly when one of its comparisons     *)
(* holds on a field that has a value (hrv < 30, resting HR > 100, recovery   *)
(* < 40; readiness < 50, focus < 50, stress > 4; time in range < 60, GMI >   *)
(* 6.5; muscle mass < 50 kg, bone mass < 5 kg), and a field without a value  *)
(* triggers nothing.                                                         *)
C19_RiskFromThresholds ==
  Classified =>
    /\ {c \in Range(harmonized_data.columns) :
          c \notin {"date", "patient_id"}
            /\ \A k \in 1..Len(FieldMap) : FieldMap[k][1] # c}
         = {"cardiovascular_risk_score", "neurological_risk_score",
            "metabolic_risk_score", "skeletal_risk_score"}
    /\ \A i \in 1..Len(harmonized_data.rows) :
         LET row == harmonized_data.rows[i] IN
           /\ row["cardiovascular_risk_score"] =
                Suspected(\/ Under(row, "avg_hrv_ms", 30)
                          \/ Over(row, "avg_resting_hr_bpm", 100)
                          \/ Under(row, "recovery_score_pct", 40))
           /\ row["neurological_risk_score"] =
                Suspected(\/ Under(row, "cognitive_readiness_score", 50)
                          \/ Under(row, "focus_score", 50)
                          \/ Over(row, "stress_level", 4))
           /\ row["metabolic_risk_score"] =
                Suspected(\/ Under(row, "time_in_range_pct", 60)
                          \/ (notna(row["gmi_percent"])
                                /\ 2 * Val(row["gmi_percent"]) > 13))
           /\ row["skeletal_risk_score"] =
                Suspected(\/ Under(row, "muscle_mass_kg", 50 * KgScale)
                          \/ Under(row, "bone_mass_kg", 5 * KgScale))
           /\ (\A c \in RiskInputs : ~notna(row[c])) =>
                \A c \in Range(RiskColumns) : row[c] = Suspected(FALSE)

(* C19 witness: a classified row none of whose ten inputs has a value *)
C19_Witness ==
  /\ Classified
  /\ \E i \in 1..Len(harmonized_data.rows) :
       \A c \in RiskInputs : ~notna(harmonized_data.rows[i][c])

====
